---- MODULE Spec2Model ----
(***************************************************************************)
(* Model of rentals_investment_pipeline.py: the Conducto pipeline that     *)
(* downloads rental and for-sale listings per zip code, stores one CSV     *)
(* artifact per (zip code, kind) in co.data.pipeline and ranks the zip     *)
(* codes by median rental $/sqft over median for-sale $/sqft.              *)
(***************************************************************************)
EXTENDS Integers, Sequences, FiniteSets, TLC

VARIABLES
    today,      \* the calendar day datetime.now() falls on (a day number)
    store,      \* co.data.pipeline: path -> artifact
    nodeState,  \* state of every Exec node of the pipeline
    cur,        \* index in Plan of the node whose command is running, 0 if none
    pc,         \* position inside the running command
    depth,      \* number of gen_*_data frames on the Python stack
    data,       \* the response text held by the innermost frame
    nFetch,     \* upstream requests issued by the running command
    nWrite,     \* co.data.pipeline.put calls made by the running command
    result,     \* how the running / last command ended
    prev,       \* the command before it, when it ran the same node
    launches,   \* number of commands started by the task runner
    pauses,     \* number of times pause() has run
    ranking,    \* the Series printed by analyze, in printed order
    summary,    \* the per-zip median KPI tables printed by analyze
    df,         \* DataFrame under KPI computation
    med         \* medians of the KPI columns of df

vars == <<today, store, nodeState, cur, pc, depth, data, nFetch, nWrite,
          result, prev, launches, pauses, ranking, summary, df, med>>

----------------------------------------------------------------------------
(* Bounds of the model *)

MaxDay == 1
RecursionLimit == 3
MaxLaunches == 3
MaxPrice == 2
MaxDivisor == 1
MaxListings == 2

----------------------------------------------------------------------------
(* Floating point values.  A float64 that the pipeline can produce from    *)
(* non-negative listing numbers is kept as a fraction n/d in lowest terms: *)
(* d = 0 and n = 1 is +inf, d = 0 and n = 0 is NaN.                        *)

RECURSIVE Gcd(_, _)
Gcd(a, b) == IF b = 0 THEN a ELSE Gcd(b, a % b)

Frac(n, d) ==
    LET g == Gcd(n, d)
    IN  IF g = 0 THEN [n |-> 0, d |-> 0] ELSE [n |-> n \div g, d |-> d \div g]

NaN == [n |-> 0, d |-> 0]
Inf == [n |-> 1, d |-> 0]
Num(k) == [n |-> k, d |-> 1]

IsNaN(x) == x.n = 0 /\ x.d = 0
IsInf(x) == x.n # 0 /\ x.d = 0
IsFinite(x) == x.d # 0

\* float64 true division of non-negative operands: x/0 = inf, 0/0 = NaN,
\* NaN propagates, inf/inf = NaN, x/inf = 0
Div(x, y) == Frac(x.n * y.d, x.d * y.n)

\* float64 addition of non-NaN, non-negative operands
Add(x, y) ==
    IF x.d = 0 \/ y.d = 0 THEN Inf ELSE Frac(x.n * y.d + y.n * x.d, x.d * y.d)

\* x < y on non-NaN operands
Less(x, y) == x.n * y.d < y.n * x.d

\* np.nanmedian / Series.median tie the middle: mean of the two middle values
Mean2(x, y) == Div(Add(x, y), Num(2))

----------------------------------------------------------------------------
(* Constant parameters and the pipeline definition, run() *)

ZIP_CODES == <<"55414", "53711", "53545", "53202", "55806">>

rental_path(zip_code) == "data/rentals_" \o zip_code
sales_path(zip_code) == "data/sales_" \o zip_code

Paths == {rental_path(ZIP_CODES[i]) : i \in 1..Len(ZIP_CODES)}
           \cup {sales_path(ZIP_CODES[i]) : i \in 1..Len(ZIP_CODES)}

\* The Exec nodes of run() in the order the nested co.Serial nodes hold them:
\* Download/gen_rental_data/<zip>..., Download/Pause,
\* Download/gen_sales_data/<zip>..., Analyze
Plan ==
    [i \in 1..Len(ZIP_CODES) |->
        [fn |-> "gen_rental_data", zip |-> ZIP_CODES[i],
         path |-> rental_path(ZIP_CODES[i])]]
    \o <<[fn |-> "pause", zip |-> "", path |-> ""]>>
    \o [i \in 1..Len(ZIP_CODES) |->
        [fn |-> "gen_sales_data", zip |-> ZIP_CODES[i],
         path |-> sales_path(ZIP_CODES[i])]]
    \o <<[fn |-> "analyze", zip |-> "", path |-> ""]>>

Nodes == 1..Len(Plan)
IsAcquire(i) == Plan[i].fn \in {"gen_rental_data", "gen_sales_data"}
AcquireNodes == {i \in Nodes : IsAcquire(i)}

----------------------------------------------------------------------------
(* Upstream responses: the text returned by requests.request(...).text *)

\* one element of the "properties" array; null / absent numbers are NaN
Home(price, beds, baths, size) ==
    [price |-> price, beds |-> beds, baths |-> baths,
     building_size |-> [size |-> size]]

PriceVals == {Num(k) : k \in 1..MaxPrice}
DivisorVals == {NaN} \cup {Num(k) : k \in 0..MaxDivisor}
Listings == {Home(p, b, t, s) : p \in PriceVals, b \in DivisorVals,
                                t \in DivisorVals, s \in DivisorVals}

NotJson == [shape |-> "notjson", hasProperties |-> FALSE, properties |-> <<>>]
JsonArray == [shape |-> "array", hasProperties |-> FALSE, properties |-> <<>>]
NoProperties == [shape |-> "object", hasProperties |-> FALSE, properties |-> <<>>]
Listing(props) == [shape |-> "object", hasProperties |-> TRUE, properties |-> props]

\* the responses the model lets the API give to one acquisition
Responses ==
    {NotJson, JsonArray, NoProperties, Listing(<<>>)}
    \cup {Listing(<<Home(Num(p), Num(1), Num(1), Num(1))>>) : p \in {1, MaxPrice}}

----------------------------------------------------------------------------
(* DataFrame, CSV and artifact store *)

\* cols_to_expand loop: building_size -> building_size_size (address and
\* lot_size columns carry nothing the pipeline computes with)
Flatten(l) ==
    [price |-> l.price, beds |-> l.beds, baths |-> l.baths,
     building_size_size |-> l.building_size.size]

DataFrame(props) == [i \in 1..Len(props) |-> Flatten(props[i])]

\* df['run_date'] = datetime.now().strftime('%Y-%m-%d'): one value for
\* every row
AddRunDate(frame, run_date) ==
    [i \in 1..Len(frame) |->
        [price |-> frame[i].price, beds |-> frame[i].beds,
         baths |-> frame[i].baths,
         building_size_size |-> frame[i].building_size_size,
         run_date |-> run_date]]

get_kpis(frame) ==
    [i \in 1..Len(frame) |->
        [price |-> frame[i].price, beds |-> frame[i].beds,
         baths |-> frame[i].baths,
         building_size_size |-> frame[i].building_size_size,
         run_date |-> frame[i].run_date,
         price_per_sqft |-> Div(frame[i].price, frame[i].building_size_size),
         price_per_beds |-> Div(frame[i].price, frame[i].beds),
         price_per_bath |-> Div(frame[i].price, frame[i].baths)]]

\* DataFrame.to_csv writes NaN as an empty field, read_csv reads an empty
\* field as NaN; run_date is written and read back as the same text
CsvCell(x) == IF IsNaN(x) THEN [blank |-> TRUE, val |-> NaN]
                          ELSE [blank |-> FALSE, val |-> x]
ParseCell(c) == IF c.blank THEN NaN ELSE c.val

to_csv(frame) ==
    [i \in 1..Len(frame) |->
        [price |-> CsvCell(frame[i].price), beds |-> CsvCell(frame[i].beds),
         baths |-> CsvCell(frame[i].baths),
         building_size_size |-> CsvCell(frame[i].building_size_size),
         run_date |-> frame[i].run_date,
         price_per_sqft |-> CsvCell(frame[i].price_per_sqft),
         price_per_beds |-> CsvCell(frame[i].price_per_beds),
         price_per_bath |-> CsvCell(frame[i].price_per_bath)]]

read_csv(rows) ==
    [i \in 1..Len(rows) |->
        [price |-> ParseCell(rows[i].price), beds |-> ParseCell(rows[i].beds),
         baths |-> ParseCell(rows[i].baths),
         building_size_size |-> ParseCell(rows[i].building_size_size),
         run_date |-> rows[i].run_date,
         price_per_sqft |-> ParseCell(rows[i].price_per_sqft),
         price_per_beds |-> ParseCell(rows[i].price_per_beds),
         price_per_bath |-> ParseCell(rows[i].price_per_bath)]]

Absent == [exists |-> FALSE, rows |-> <<>>]
Artifact(rows) == [exists |-> TRUE, rows |-> rows]

\* put that keeps what the artifact held and adds the new rows after it
put_append(st, path, rows) ==
    [st EXCEPT ![path] = Artifact(st[path].rows \o rows)]

\* co.data.pipeline.put(path, path): the artifact at path becomes the file
put(st, path, rows) == [st EXCEPT ![path] = Artifact(rows)]

\* the value check_run_today returns for "False"
NoRunDate == -1

\* a staleness check that never finds the artifact
check_run_today_never(st, path) == NoRunDate

check_run_today(st, path) ==
    IF st[path].exists
        THEN read_csv(st[path].rows)[1].run_date
        ELSE NoRunDate

\* lines 116-133 and 192-209: the Dataset computed from the listings and
\* the store after it is saved
Dataset(props, day) == get_kpis(AddRunDate(DataFrame(props), day))

Persist(st, path, props, day) == put(st, path, to_csv(Dataset(props, day)))

----------------------------------------------------------------------------
(* Initial state: a pipeline instance about to run.  Its co.data.pipeline *)
(* store is empty, or, when the instance was run to the end earlier today  *)
(* and has been reset, holds the artifact of every path.                   *)

NoCall == [node |-> 0, startDay |-> 0, endDay |-> 0, outcome |-> "none",
           fetches |-> 0, writes |-> 0]

EmptyStore == [p \in Paths |-> Absent]

\* every path holds the artifact an earlier run saved on day 0
FullStore ==
    [p \in Paths |->
        Artifact(to_csv(Dataset(<<Home(Num(1), Num(1), Num(1), Num(1))>>, 0)))]

Init ==
    /\ today = 0
    /\ store \in {EmptyStore, FullStore}
    /\ nodeState = [i \in Nodes |-> "pending"]
    /\ cur = 0
    /\ pc = "idle"
    /\ depth = 0
    /\ data = NotJson
    /\ nFetch = 0
    /\ nWrite = 0
    /\ result = NoCall
    /\ prev = NoCall
    /\ launches = 0
    /\ pauses = 0
    /\ ranking = <<>>
    /\ summary = <<>>
    /\ df = <<>>
    /\ med = <<>>

\* midnight passes
Tick ==
    /\ today < MaxDay
    /\ today' = today + 1
    /\ UNCHANGED <<store, nodeState, cur, pc, depth, data, nFetch, nWrite,
                   result, prev, launches, pauses, ranking, summary, df, med>>

\* the command of node i starts: co.Exec(gen_rental_data, ...) and so on
StartNode(i) ==
    /\ cur = 0
    /\ cur' = i
    /\ nodeState' = [nodeState EXCEPT ![i] = "running"]
    /\ pc' = "call"
    /\ depth' = IF IsAcquire(i) THEN 1 ELSE 0
    /\ nFetch' = 0
    /\ nWrite' = 0
    /\ prev' = IF result.node = i
                   THEN [result EXCEPT !.fetches = nFetch, !.writes = nWrite]
                   ELSE NoCall
    /\ result' = [node |-> i, startDay |-> today, endDay |-> today,
                  outcome |-> "running", fetches |-> 0, writes |-> 0]
    /\ launches' = launches + 1
    /\ UNCHANGED <<today, store, data, pauses, ranking, summary, df, med>>

\* the command of the running node ends: it returned (done) or raised (error)
EndNode(state, outcome) ==
    /\ nodeState' = [nodeState EXCEPT ![cur] = state]
    /\ result' = [result EXCEPT !.endDay = today, !.outcome = outcome]
    /\ cur' = 0
    /\ pc' = "idle"
    /\ depth' = 0
    /\ data' = NotJson

\* gen_rental_data / gen_sales_data, lines 100-105 and 176-181: the staleness
\* check, then the request of _get_rental_data / _get_sales_data
AlreadyCollected(st, path, day) == check_run_today(st, path) = day

SkipToday ==
    /\ cur \in AcquireNodes
    /\ pc = "call"
    /\ AlreadyCollected(store, Plan[cur].path, today)
    /\ EndNode("done", "skipped")
    /\ UNCHANGED <<today, store, nFetch, nWrite, prev, launches, pauses,
                   ranking, summary, df, med>>

Fetch ==
    /\ cur \in AcquireNodes
    /\ pc = "call"
    /\ ~AlreadyCollected(store, Plan[cur].path, today)
    /\ \E response \in Responses :
          /\ data' = response
          /\ nFetch' = nFetch + 1
          /\ pc' = "fetched"
    /\ UNCHANGED <<today, store, nodeState, cur, depth, nWrite, result, prev,
                   launches, pauses, ranking, summary, df, med>>

\* requests.request raises (connection error, timeout): nothing in the
\* module catches it, the command fails
TransportFailure ==
    /\ cur \in AcquireNodes
    /\ pc = "call"
    /\ ~AlreadyCollected(store, Plan[cur].path, today)
    /\ nFetch' = nFetch + 1
    /\ EndNode("error", "transport")
    /\ UNCHANGED <<today, store, nWrite, prev, launches, pauses,
                   ranking, summary, df, med>>

\* json.loads(data)['properties'] raises KeyError or JSONDecodeError
Malformed(d) == d.shape = "notjson" \/ (d.shape = "object" /\ ~d.hasProperties)

\* a handler that stores what it got before calling the function again
RetryAfterSave ==
    /\ cur \in AcquireNodes
    /\ pc = "fetched"
    /\ Malformed(data)
    /\ depth < RecursionLimit
    /\ depth' = depth + 1
    /\ pc' = "call"
    /\ store' = put(store, Plan[cur].path, <<>>)
    /\ UNCHANGED <<today, nodeState, cur, data, nFetch, nWrite, result,
                   prev, launches, pauses, ranking, summary, df, med>>

\* lines 109-111 and 185-187: the handler calls the function again
Retry ==
    /\ cur \in AcquireNodes
    /\ pc = "fetched"
    /\ Malformed(data)
    /\ depth < RecursionLimit
    /\ depth' = depth + 1
    /\ pc' = "call"
    /\ UNCHANGED <<today, store, nodeState, cur, data, nFetch, nWrite, result,
                   prev, launches, pauses, ranking, summary, df, med>>

\* the interpreter's recursion limit ends the chain of calls: RecursionError
RecursionOverflow ==
    /\ cur \in AcquireNodes
    /\ pc = "fetched"
    /\ Malformed(data)
    /\ depth >= RecursionLimit
    /\ EndNode("error", "recursion")
    /\ UNCHANGED <<today, store, nFetch, nWrite, prev, launches, pauses,
                   ranking, summary, df, med>>

\* json.loads gives a list, string or number: ['properties'] raises
\* TypeError, which the except clause does not name
NotAnObject ==
    /\ cur \in AcquireNodes
    /\ pc = "fetched"
    /\ data.shape = "array"
    /\ EndNode("error", "typeerror")
    /\ UNCHANGED <<today, store, nFetch, nWrite, prev, launches, pauses,
                   ranking, summary, df, med>>

\* an empty-listing branch that falls through to the save
NoListingsSaved ==
    /\ cur \in AcquireNodes
    /\ pc = "fetched"
    /\ data.shape = "object" /\ data.hasProperties
    /\ Len(DataFrame(data.properties)) = 0
    /\ store' = put(store, Plan[cur].path, <<>>)
    /\ EndNode("done", "empty")
    /\ UNCHANGED <<today, nFetch, nWrite, prev, launches, pauses,
                   ranking, summary, df, med>>

\* lines 113-115 and 189-191
NoListings ==
    /\ cur \in AcquireNodes
    /\ pc = "fetched"
    /\ data.shape = "object" /\ data.hasProperties
    /\ Len(DataFrame(data.properties)) = 0
    /\ EndNode("done", "empty")
    /\ UNCHANGED <<today, store, nFetch, nWrite, prev, launches, pauses,
                   ranking, summary, df, med>>

\* lines 116-135 and 192-211: flatten, run_date, KPIs, to_csv, put
Save ==
    /\ cur \in AcquireNodes
    /\ pc = "fetched"
    /\ data.shape = "object" /\ data.hasProperties
    /\ Len(DataFrame(data.properties)) # 0
    /\ store' = Persist(store, Plan[cur].path, data.properties, today)
    /\ nWrite' = nWrite + 1
    /\ EndNode("done", "written")
    /\ UNCHANGED <<today, nFetch, prev, launches, pauses, ranking,
                   summary, df, med>>

Acquire ==
    \/ SkipToday
    \/ Fetch
    \/ TransportFailure
    \/ Retry
    \/ RecursionOverflow
    \/ NotAnObject
    \/ NoListings
    \/ Save

\* the task runner runs one acquisition node and, after a reset of that
\* node, runs it again (nodes of different keys share no artifact)
Rerun ==
    /\ launches < MaxLaunches
    /\ \E i \in AcquireNodes : result.node \in {0, i} /\ StartNode(i)

NextAcquire == Tick \/ Rerun \/ Acquire

SpecAcquire == Init /\ [][NextAcquire]_vars

----------------------------------------------------------------------------
(* pause and analyze *)

\* pause(5): time.sleep
Pause ==
    /\ cur \in Nodes
    /\ Plan[cur].fn = "pause"
    /\ pc = "call"
    /\ pauses' = pauses + 1
    /\ EndNode("done", "slept")
    /\ UNCHANGED <<today, store, nFetch, nWrite, prev, launches, ranking,
                   summary, df, med>>

Column(frame, name) == [i \in 1..Len(frame) |-> frame[i][name]]

\* ascending insertion of x into the sorted sequence s
RECURSIVE Insert(_, _)
Insert(x, s) ==
    IF s = <<>> THEN <<x>>
    ELSE IF Less(x, Head(s)) THEN <<x>> \o s
    ELSE <<Head(s)>> \o Insert(x, Tail(s))

RECURSIVE Sort(_)
Sort(s) == IF s = <<>> THEN <<>> ELSE Insert(Head(s), Sort(Tail(s)))

\* Series.median(): skipna=True drops NaN (and only NaN), then the middle
\* of the sorted values, the mean of the two middle ones for an even count
Median(values) ==
    LET v == Sort(SelectSeq(values, LAMBDA x : ~IsNaN(x)))
        n == Len(v)
    IN  IF n = 0 THEN NaN
        ELSE IF n % 2 = 1 THEN v[(n + 1) \div 2]
        ELSE Mean2(v[n \div 2], v[n \div 2 + 1])

KpiMedians(frame) ==
    [price_per_sqft |-> Median(Column(frame, "price_per_sqft")),
     price_per_beds |-> Median(Column(frame, "price_per_beds")),
     price_per_bath |-> Median(Column(frame, "price_per_bath"))]

\* "or" in place of "and"
EitherLoaded(st, zip_code) ==
    st[rental_path(zip_code)].exists \/ st[sales_path(zip_code)].exists

\* line 272: both DataFrames were loaded
BothLoaded(st, zip_code) ==
    st[rental_path(zip_code)].exists /\ st[sales_path(zip_code)].exists

\* line 273
Ratio(st, zip_code) ==
    Div(Median(Column(read_csv(st[rental_path(zip_code)].rows), "price_per_sqft")),
        Median(Column(read_csv(st[sales_path(zip_code)].rows), "price_per_sqft")))

\* the dict d after the loop over ZIP_CODES, in insertion order
RECURSIVE RatioDict(_, _)
RatioDict(st, k) ==
    IF k = 0 THEN <<>>
    ELSE RatioDict(st, k - 1) \o
         (IF BothLoaded(st, ZIP_CODES[k])
             THEN <<[zip_code |-> ZIP_CODES[k], ratio |-> Ratio(st, ZIP_CODES[k])]>>
             ELSE <<>>)

\* the tables printed at lines 278-285, one per zip code with both datasets
RECURSIVE KpiTables(_, _)
KpiTables(st, k) ==
    IF k = 0 THEN <<>>
    ELSE KpiTables(st, k - 1) \o
         (IF BothLoaded(st, ZIP_CODES[k])
             THEN <<[zip_code |-> ZIP_CODES[k],
                     rentals |-> KpiMedians(read_csv(st[rental_path(ZIP_CODES[k])].rows)),
                     sales |-> KpiMedians(read_csv(st[sales_path(ZIP_CODES[k])].rows))]>>
             ELSE <<>>)

\* sort_values(ascending=False): descending, NaN at the end
\* (na_position='last'); a before b is allowed
InOrder(a, b) ==
    \/ IsNaN(b.ratio)
    \/ (~IsNaN(a.ratio) /\ ~Less(a.ratio, b.ratio))

IndexOrders(n) == {f \in [1..n -> 1..n] : \A i, j \in 1..n : f[i] = f[j] => i = j}

\* the Series printed as built, without sort_values
unsorted(d) == {d}

\* The orders sort_values can print d in.  The default kind, quicksort, is
\* not a stable sort and the module names no tie-breaker, so entries whose
\* ratios compare equal may come out in any order.
sort_values(d) ==
    {[i \in 1..Len(d) |-> d[f[i]]] : f \in
        {g \in IndexOrders(Len(d)) :
            \A i \in 1..Len(d) - 1 : InOrder(d[g[i]], d[g[i + 1]])}}

Analyze ==
    /\ cur \in Nodes
    /\ Plan[cur].fn = "analyze"
    /\ pc = "call"
    /\ summary' = KpiTables(store, Len(ZIP_CODES))
    /\ ranking' \in sort_values(RatioDict(store, Len(ZIP_CODES)))
    /\ EndNode("done", "analyzed")
    /\ UNCHANGED <<today, store, nFetch, nWrite, prev, launches, pauses, df, med>>

----------------------------------------------------------------------------
(* The pipeline run: co.Serial runs its children one after another and,    *)
(* stop_on_error being left at its default, starts no further child once   *)
(* one has failed.                                                         *)

\* co.Parallel in place of co.Serial: any pending node may start
ParallelReady(i) == nodeState[i] = "pending"

\* stop_on_error = False: a failed child does not keep the next from starting
SerialReadyContinue(i) ==
    /\ nodeState[i] = "pending"
    /\ \A j \in Nodes : j < i => nodeState[j] \in {"done", "error"}

SerialReady(i) ==
    /\ nodeState[i] = "pending"
    /\ \A j \in Nodes : j < i => nodeState[j] = "done"

SerialStart == \E i \in Nodes : SerialReady(i) /\ StartNode(i)

Next == SerialStart \/ Acquire \/ Pause \/ Analyze

Spec == Init /\ [][Next]_vars

----------------------------------------------------------------------------
(* KPI computation and medians on their own: get_kpis applied to every     *)
(* rectangular frame of up to MaxListings listings, then the medians       *)
(* analyze takes of the frame read back from its CSV.                      *)

ListingSeqs == UNION {[1..n -> Listings] : n \in 1..MaxListings}

InitKpi ==
    /\ today = 0
    /\ store = EmptyStore
    /\ nodeState = [i \in Nodes |-> "pending"]
    /\ cur = 0
    /\ pc = "kpi"
    /\ depth = 0
    /\ data = NotJson
    /\ nFetch = 0
    /\ nWrite = 0
    /\ result = NoCall
    /\ prev = NoCall
    /\ launches = 0
    /\ pauses = 0
    /\ ranking = <<>>
    /\ summary = <<>>
    /\ df \in {AddRunDate(DataFrame(props), today) : props \in ListingSeqs}
    /\ med = <<>>

ComputeKpis ==
    /\ pc = "kpi"
    /\ df' = get_kpis(df)
    /\ pc' = "median"
    /\ UNCHANGED <<today, store, nodeState, cur, depth, data, nFetch, nWrite,
                   result, prev, launches, pauses, ranking, summary, med>>

ComputeMedians ==
    /\ pc = "median"
    /\ med' = KpiMedians(read_csv(to_csv(df)))
    /\ pc' = "done"
    /\ UNCHANGED <<today, store, nodeState, cur, depth, data, nFetch, nWrite,
                   result, prev, launches, pauses, ranking, summary, df>>

NextKpi == ComputeKpis \/ ComputeMedians

SpecKpi == InitKpi /\ [][NextKpi]_vars

----------------------------------------------------------------------------
(* Properties *)

Idle == cur = 0 /\ pc = "idle"

PathOf(i) == Plan[i].path

\* two consecutive commands of one acquisition node, both run from start
\* to end on one calendar day, the second one over
SameDayPair ==
    /\ Idle
    /\ result.node \in AcquireNodes
    /\ prev.node = result.node
    /\ prev.startDay = prev.endDay
    /\ result.startDay = prev.startDay
    /\ result.endDay = prev.startDay

Returned(call) == call.outcome \in {"skipped", "empty", "written"}

\* C1 as stated: two acquire calls for one (zip_code, kind) on one calendar
\* day, both returning normally, make one upstream fetch and one artifact
\* write in total, and the second call neither fetches nor writes.
C1_Original ==
    (SameDayPair /\ Returned(prev) /\ Returned(result)) =>
        /\ prev.fetches + nFetch = 1
        /\ prev.writes + nWrite = 1
        /\ nFetch = 0
        /\ nWrite = 0

\* C1 amended: when the first of two same-day acquire calls for one
\* (zip_code, kind) wrote the artifact, the second call is skipped: it makes
\* no fetch and no write, so the two calls make exactly one write in total
\* and no fetch beyond those of the first call.
C1_SecondCallSkipped ==
    (SameDayPair /\ prev.outcome = "written") =>
        /\ result.outcome = "skipped"
        /\ nodeState[result.node] = "done"
        /\ nFetch = 0
        /\ nWrite = 0
        /\ prev.writes + nWrite = 1
        /\ prev.fetches >= 1

C1_Witness ==
    /\ SameDayPair
    /\ prev.outcome = "written"
    /\ prev.fetches = 1
    /\ result.outcome = "skipped"

\* C2 as stated: one acquire call issues at most two upstream fetches, that
\* is, a malformed payload is re-fetched once and a second malformed payload
\* ends the acquisition.
C2_AtMostTwoFetches == nFetch <= 2

NotWellFormed(d) == ~(d.shape = "object" /\ d.hasProperties)

\* C3: while the payload an acquire call holds is malformed (not JSON, no
\* 'properties' key, not an object), no step writes to the artifact store:
\* every artifact, present or absent, stays exactly what it was, and the
\* call has written nothing.
C3_MalformedNeverWrites ==
    [][(cur \in AcquireNodes /\ pc = "fetched" /\ NotWellFormed(data)) =>
            /\ store' = store
            /\ nWrite = 0
            /\ nWrite' = 0]_vars

\* a call that saw only malformed payloads has ended, and the artifact an
\* earlier call stored is still there
C3_Witness ==
    /\ Idle
    /\ result.outcome = "recursion"
    /\ nFetch = RecursionLimit
    /\ prev.outcome = "written"
    /\ store[PathOf(result.node)].exists

\* C4: a step taken from a parsed payload with zero listings leaves the
\* store unchanged, and the call then returns normally (the node is done,
\* not failed) without having written.
C4_EmptyWritesNothing ==
    [][(cur \in AcquireNodes /\ pc = "fetched" /\ data = Listing(<<>>)) =>
            /\ store' = store
            /\ pc' = "idle" =>
                  /\ nodeState'[cur] = "done"
                  /\ result'.outcome = "empty"
                  /\ nWrite' = 0]_vars

\* an empty listing came back on a later day than the stored artifact's,
\* and that artifact is still in place
C4_Witness ==
    /\ Idle
    /\ result.outcome = "empty"
    /\ nodeState[result.node] = "done"
    /\ store[PathOf(result.node)].exists
    /\ check_run_today(store, PathOf(result.node)) < result.startDay

PauseNode == CHOOSE i \in Nodes : Plan[i].fn = "pause"
AnalyzeNode == CHOOSE i \in Nodes : Plan[i].fn = "analyze"
RentalNodes == {i \in Nodes : Plan[i].fn = "gen_rental_data"}
SaleNodes == {i \in Nodes : Plan[i].fn = "gen_sales_data"}
Begun(i) == nodeState[i] # "pending"

C6_ArtifactReplaced ==
    (Idle /\ result.node \in AcquireNodes /\ result.outcome = "written") =>
        LET a == store[PathOf(result.node)]
            rows == read_csv(a.rows)
        IN  /\ a.exists
            /\ nWrite = 1
            /\ Len(rows) >= 1
            /\ \A i \in 1..Len(rows) :
                  /\ rows[i].run_date = result.endDay
                  /\ rows[i].price_per_sqft
                        = Div(rows[i].price, rows[i].building_size_size)
            /\ AlreadyCollected(store, PathOf(result.node), result.endDay)

\* a save over the artifact the same node stored on an earlier day
C6_Witness ==
    /\ Idle
    /\ result.outcome = "written"
    /\ prev.node = result.node
    /\ prev.outcome = "written"
    /\ prev.endDay < result.endDay

InRanking(zip_code) == \E i \in 1..Len(ranking) : ranking[i].zip_code = zip_code

Configured == {ZIP_CODES[k] : k \in 1..Len(ZIP_CODES)}

\* C7: when analyze has run, it has completed (it did not fail), and the
\* ranking holds exactly one entry for each configured zip code whose rental
\* and sale artifacts both exist and no entry for any other zip code.
C7_RankedIffBoth ==
    (~Begun(AnalyzeNode) \/ nodeState[AnalyzeNode] = "running")
    \/ /\ nodeState[AnalyzeNode] = "done"
       /\ \A z \in Configured :
             InRanking(z) <=>
                (store[rental_path(z)].exists /\ store[sales_path(z)].exists)
       /\ \A i, j \in 1..Len(ranking) :
             ranking[i].zip_code = ranking[j].zip_code => i = j

\* a zip code with only a sale dataset is left out, another one is ranked
C7_Witness ==
    /\ nodeState[AnalyzeNode] = "done"
    /\ \E z \in Configured :
          /\ ~store[rental_path(z)].exists
          /\ store[sales_path(z)].exists
          /\ ~InRanking(z)
    /\ \E z \in Configured : InRanking(z)

\* zip codes as numbers, for their natural order
ZipNumber(zip_code) ==
    CASE zip_code = "55414" -> 55414
      [] zip_code = "53711" -> 53711
      [] zip_code = "53545" -> 53545
      [] zip_code = "53202" -> 53202
      [] zip_code = "55806" -> 55806

SameRatio(a, b) ==
    ~IsNaN(a.ratio) /\ ~IsNaN(b.ratio) /\ a.ratio.n * b.ratio.d = b.ratio.n * a.ratio.d

\* a's ratio is greater than or equal to b's
AtLeast(a, b) == a.ratio.n * b.ratio.d >= b.ratio.n * a.ratio.d

Descending ==
    \A i, j \in 1..Len(ranking) :
        (i < j /\ ~IsNaN(ranking[j].ratio)) =>
            (~IsNaN(ranking[i].ratio) /\ AtLeast(ranking[i], ranking[j]))

\* C8 as stated: the printed ranking is in descending order of ratio and
\* entries with equal ratios are in zip-code natural order.
C8_Original ==
    nodeState[AnalyzeNode] = "done" =>
        /\ Descending
        /\ \A i, j \in 1..Len(ranking) :
              (i < j /\ SameRatio(ranking[i], ranking[j])) =>
                  ZipNumber(ranking[i].zip_code) < ZipNumber(ranking[j].zip_code)

\* C8 amended: the printed ranking holds the computed (zip_code, ratio)
\* entries in descending order of ratio, entries with an undefined ratio
\* last; the order among entries of equal ratio is not fixed.
C8_SortedDescending ==
    nodeState[AnalyzeNode] = "done" =>
        /\ Descending
        /\ \A z \in Configured :
              (store[rental_path(z)].exists /\ store[sales_path(z)].exists) =>
                  \E i \in 1..Len(ranking) :
                      /\ ranking[i].zip_code = z
                      /\ ranking[i].ratio = Ratio(store, z)

\* three or more ranked zip codes, two distinct ratios and one tie
C8_Witness ==
    /\ nodeState[AnalyzeNode] = "done"
    /\ Len(ranking) >= 3
    /\ \E i, j \in 1..Len(ranking) : i < j /\ ~SameRatio(ranking[i], ranking[j])
    /\ \E i, j \in 1..Len(ranking) : i < j /\ SameRatio(ranking[i], ranking[j])

\* the run can start no further node
RunOver == cur = 0 /\ \A i \in Nodes : ~SerialReady(i)

\* C9 as stated: when the run has ended and a transport failure has failed
\* one acquisition, the acquisitions sequenced after it have been executed.
C9_Original ==
    (RunOver /\ result.outcome = "transport") =>
        \A j \in AcquireNodes : j > result.node => Begun(j)

\* C9 amended: a transport failure fails that acquisition step, which writes
\* nothing, and ends the run: every step before it is complete and no step
\* sequenced after it (later acquisitions, pause, analyze) is started.
C9_FailureStopsRun ==
    result.outcome = "transport" =>
        /\ nodeState[result.node] = "error"
        /\ nWrite = 0
        /\ RunOver
        /\ \A j \in Nodes : j < result.node => nodeState[j] = "done"
        /\ \A j \in Nodes : j > result.node => ~Begun(j)

\* a rental acquisition after the first fails on the transport while later
\* zip codes' acquisitions are still to run
C9_Witness ==
    /\ result.outcome = "transport"
    /\ result.node \in RentalNodes
    /\ result.node > 1
    /\ \E j \in RentalNodes : j > result.node

\* the median of the finite values of a column
FiniteMedian(values) ==
    LET v == Sort(SelectSeq(values, LAMBDA x : IsFinite(x)))
        n == Len(v)
    IN  IF n = 0 THEN NaN
        ELSE IF n % 2 = 1 THEN v[(n + 1) \div 2]
        ELSE Mean2(v[n \div 2], v[n \div 2 + 1])

\* C10 as stated: every record keeps its KPI fields, a zero or missing
\* divisor gives a non-finite value, and the median of each KPI column is
\* the median of its finite values only.
C10_Original ==
    pc = "done" =>
        /\ \A i \in 1..Len(df) :
              /\ (df[i].beds \in {NaN, Num(0)}) => ~IsFinite(df[i].price_per_beds)
              /\ (df[i].baths \in {NaN, Num(0)}) => ~IsFinite(df[i].price_per_bath)
              /\ (df[i].building_size_size \in {NaN, Num(0)})
                     => ~IsFinite(df[i].price_per_sqft)
        /\ med.price_per_sqft = FiniteMedian(Column(df, "price_per_sqft"))
        /\ med.price_per_beds = FiniteMedian(Column(df, "price_per_beds"))
        /\ med.price_per_bath = FiniteMedian(Column(df, "price_per_bath"))

====
